---- MODULE Spec2Model ----
(***************************************************************************)
(* The webR kernel for JupyterLite (class WebRKernel): the dispatch of     *)
(* inbound Jupyter messages, the execute-request lifecycle and the plot    *)
(* change detection, as a state machine.                                   *)
(*                                                                         *)
(* Two variants of the class are modelled, chosen by `variant`:            *)
(*   "hash"    src/src/webr_kernel.ts (svglite render, sha256 fingerprint) *)
(*   "shelter" src/unnamed/part_002, lines 1-369 (Shelter, recordPlot)     *)
(*                                                                         *)
(* JavaScript runs one job at a time: an action of this module is one job  *)
(* of the event loop, i.e. a call of a handler or the arrival of one       *)
(* answer of the webR worker, together with everything the awaiting code   *)
(* does until it reaches its next pending await.  The webR worker serves   *)
(* the requests of the main thread one at a time in the order they were    *)
(* posted; `rq` is that queue.                                             *)
(***************************************************************************)
EXTENDS Naturals, Sequences, FiniteSets, TLC

\* Inbound messages delivered to handleMessage in one session.
MaxMsg == 3
\* Runtime calls that reject for a reason other than the user's code raising.
MaxFaults == 1
\* Messages delivered by a host that does not await the calls of handleMessage.
MaxOverlap == 2
\* input_reply messages delivered to handleMessage.
MaxInput == 1
\* Times the runtime asks for a line of input.
MaxPrompts == 1
\* Calls of dispose().
MaxDispose == 2

Variants == {"hash", "shelter"}
Sessions == {"s1", "s2"}

VARIABLES
  variant,          \* which variant of the class runs
  parentHeader,     \* #parentHeader
  executionCounter, \* #executionCounter
  lastPlot,         \* #lastPlotHash (hash) / #lastRecord (shelter); 0: undefined / null
  lastLive,         \* shelter: the R object behind #lastRecord is still protected
  initState,        \* the promise #init: "pending", "ok", "failed"
  envState,         \* the promise #envSetup: "pending", "ok", "failed"
  tasks,            \* the calls of handleMessage so far, by message id
  rq,               \* requests posted to the webR worker and not yet answered
  rDev,             \* R: 1 iff a graphics device is active (dev.cur() > 1)
  rPlot,            \* R: what the active device shows (0: nothing)
  rFigNew,          \* R: option webr.fig.new / webr.plot.new
  rFile,            \* R: /tmp/_webRplots.svg (0: no such file)
  faults,           \* runtime calls that rejected so far
  sent,             \* what #sendMessage was called with, in order
  win,              \* the oldest message id whose messages `sent` holds in full
  isDisposed,       \* #isDisposed
  stdin,            \* lines written to the runtime's stdin (Console.stdin)
  prompts,          \* input_request messages sent and not yet answered by a line
  disposeCalls,     \* calls of dispose() so far
  disposed,         \* emissions of the signal #disposed so far
  mq                \* the microtask queue: the calls whose continuation is queued

kvars == <<parentHeader, executionCounter, lastPlot, lastLive>>
pvars == <<initState, envState>>
rvars == <<rDev, rPlot, rFigNew, rFile>>
svars == <<isDisposed, stdin, prompts, disposeCalls, disposed>>
vars == <<variant, parentHeader, executionCounter, lastPlot, lastLive, initState,
          envState, tasks, rq, rDev, rPlot, rFigNew, rFile, faults, sent, win,
          isDisposed, stdin, prompts, disposeCalls, disposed, mq>>

-----------------------------------------------------------------------------
(* Protocol messages *)

NoHeader == [msg_id |-> 0, session |-> ""]

Header(id, session) == [msg_id |-> id, session |-> session]

\* An outbound message.  `by` is the handleMessage call that sent it (0: the
\* constructor); `parent` is the msg_id of its parent_header (0: {} or undefined).
Msg(type, by, parent, session, state, name, text, count, fp) ==
  [type |-> type, by |-> by, parent |-> parent, session |-> session, state |-> state,
   name |-> name, text |-> text, count |-> count, fp |-> fp]

\* sendKernelStatus: parent_header is {}, session is that of #parentHeader.
StatusMsg(by, ph, status) == Msg("status", by, 0, ph.session, status, "", "", 0, 0)

\* sendIOReply(msg, 'stream', {name, text})
StreamMsg(by, hdr, name, text) ==
  Msg("stream", by, hdr.msg_id, hdr.session, "", name, text, 0, 0)

\* sendIOReply(msg, 'display_data', {data, metadata})
DisplayMsg(by, hdr, data) ==
  Msg("display_data", by, hdr.msg_id, hdr.session, "", "", "", 0, data)

\* The success reply reports the counter as it was when the request arrived.
OkReplyCountBefore(by, hdr, count) ==
  Msg("execute_reply", by, hdr.msg_id, hdr.session, "ok", "", "", tasks[by].count0, 0)
    @@ [user_expressions |-> <<>>]

\* sendShellReply(msg, 'execute_reply', {status: 'ok', execution_count, user_expressions})
OkReply(by, hdr, count) ==
  Msg("execute_reply", by, hdr.msg_id, hdr.session, "ok", "", "", count, 0)
    @@ [user_expressions |-> <<>>]

\* sendShellReply(msg, 'execute_reply', {status: 'error', execution_count, ename, evalue,
\* traceback}); text holds evalue.
ErrorReply(by, hdr, count, evalue) ==
  Msg("execute_reply", by, hdr.msg_id, hdr.session, "error", "error", evalue, count, 0)
    @@ [traceback |-> <<>>]

\* sendStdinRequest: by no call of handleMessage; parent is #parentHeader.
InputRequest(ph) == Msg("input_request", 0, ph.msg_id, ph.session, "", "", "", 0, 0)

\* sendKernelInfoReply(msg)
InfoReply(by, hdr) ==
  Msg("kernel_info_reply", by, hdr.msg_id, hdr.session, "ok", "", "", 0, 0)

-----------------------------------------------------------------------------
(* The R session behind webR: what the evaluated code does *)

\* The cells a client sends.
Codes ==
  {"quiet", "say", "warn", "plot", "draw", "touch", "off", "plotoff", "stop", "plotstop"}

Item(type, data) == [type |-> type, data |-> data]

\* exec.output of captureR: the captured output items, in capture order.
CodeOutput(code) ==
  CASE code = "say"  -> <<Item("stdout", "a"), Item("message", "m"), Item("stderr", "e")>>
    [] code = "warn" -> <<Item("warning", "w"), Item("other", "x"), Item("stdout", "b")>>
    [] OTHER -> <<>>

\* The cell calls plot.new (the before.plot.new / plot.new hook runs).
CodeNewPage(code) == code \in {"plot", "plotoff", "plotstop"}

\* The cell raises an R error: captureR rejects.  Drawing needs an open plot.
CodeRaises(code, dev) ==
  code \in {"stop", "plotstop"} \/ (code \in {"draw", "touch"} /\ dev = 0)

CodeError(code) ==
  IF code \in {"draw", "touch"} THEN "plot.new has not been called yet" ELSE "boom"

\* The graphics device after the cell: <<device active, what it shows>>.  "draw"
\* adds to the open plot; "touch" draws on it without changing what it shows.
CodeDevice(code, dev, plot) ==
  CASE code \in {"plot", "plotstop"} -> <<1, 1>>
    [] code \in {"off", "plotoff"}   -> <<0, 0>>
    [] code = "draw" /\ dev = 1      -> <<1, 2>>
    [] OTHER                         -> <<dev, plot>>

\* Renderings of what a device shows: the svg file, its sha256, the recorded plot
\* and the png of the canvas capture.  Different contents render differently.
Svg(plot) == 10 + plot
Sha256(data) == 100 + data
Record(plot) == 20 + plot
Png(plot) == 30 + plot

-----------------------------------------------------------------------------
(* Calls of handleMessage and requests to the worker *)

\* A call of handleMessage: the message, where the call stands (pc), the locals of
\* sendPlotOutput (dev, newPlot, data, live: the captured record is still protected)
\* and, as a record of what happened, the counter when the message arrived, the R
\* error its evaluation raised ("": none), whether a step of its try statement or of
\* a callback started there rejected and how
\* often it called shelter.purge().
Task(type, hdr, sh, code, pc) ==
  [type |-> type, hdr |-> hdr, store_history |-> sh, code |-> code, pc |-> pc,
   dev |-> 0, newPlot |-> FALSE, data |-> 0, live |-> TRUE,
   count0 |-> executionCounter, error |-> "", failed |-> FALSE, purges |-> 0]

\* A request posted to the worker: the operation, the call of handleMessage that
\* awaits it, the output item it reads (0: none) and whether the R object it reads
\* is still protected.
Req(op, t, item) == [op |-> op, t |-> t, item |-> item, live |-> TRUE]

Settled(t) == tasks[t].pc \in {"done", "rejected"}

\* The ids, in order of arrival, of the calls suspended at `pc`.
Waiting(pc) ==
  LET W(i) == tasks[i].pc = pc IN SelectSeq([i \in 1..Len(tasks) |-> i], W)

\* A call stands at an `await` (or left a callback on `ready`) whose promise has
\* already settled: its continuation is a microtask of the running job.
MicrotaskPending == mq # <<>>

\* One more runtime call may reject.
MayFail(ok) == ok \/ faults < MaxFaults

Fault(ok) == IF ok THEN faults ELSE faults + 1

-----------------------------------------------------------------------------
(* Construction and readiness *)

\* The constructor: sendKernelStatus('starting'), then #init and #envSetup pending.
\* The state it leaves, whatever the variant.
Start ==
  /\ parentHeader = NoHeader
  /\ executionCounter = 0
  /\ lastPlot = 0
  /\ lastLive = TRUE
  /\ initState = "pending"
  /\ envState = "pending"
  /\ tasks = <<>>
  /\ rq = <<>>
  /\ rDev = 0
  /\ rPlot = 0
  /\ rFigNew = FALSE
  /\ rFile = 0
  /\ faults = 0
  /\ sent = <<StatusMsg(0, NoHeader, "starting")>>
  /\ win = 1
  /\ isDisposed = FALSE
  /\ stdin = 0
  /\ prompts = 0
  /\ disposeCalls = 0
  /\ disposed = 0
  /\ mq = <<>>

Init == variant \in Variants /\ Start

\* What the calls suspended at `pc` become when their promise settles.
Resume(pc, to) ==
  [i \in 1..Len(tasks) |-> IF tasks[i].pc = pc THEN [tasks[i] EXCEPT !.pc = to] ELSE tasks[i]]

\* handleExecRequest after `await this.#envSetup`: the call of captureR.
CaptureReqs(ids) == [k \in 1..Len(ids) |-> Req("captureR", ids[k], 0)]

\* handleMessage, kernel_info_request, after `await this.ready`.
IdleMsgs(ids) == [k \in 1..Len(ids) |-> StatusMsg(ids[k], parentHeader, "idle")]

\* webR.init() settles: the continuations of the calls at `await this.ready` are
\* queued, in order of registration.  A rejection also rejects setupEnvironment,
\* which awaits it first, and queues the calls at `await this.#envSetup` after them.
WebRInit ==
  /\ initState = "pending"
  /\ ~MicrotaskPending
  /\ \E ok \in BOOLEAN :
       /\ initState' = IF ok THEN "ok" ELSE "failed"
       /\ envState' = IF ok THEN "pending" ELSE "failed"
       /\ mq' = mq \o Waiting("awaitReady")
                   \o (IF ok THEN <<>> ELSE Waiting("awaitEnv"))
  /\ UNCHANGED <<variant, svars, kvars, tasks, rq, rvars, faults, sent, win>>

\* setupEnvironment settles (package install or Shelter creation, options, hooks):
\* the continuations of the calls at `await this.#envSetup` are queued.
SetupEnvironment ==
  /\ initState = "ok"
  /\ envState = "pending"
  /\ ~MicrotaskPending
  /\ \E ok \in BOOLEAN : envState' = IF ok THEN "ok" ELSE "failed"
  /\ mq' = mq \o Waiting("awaitEnv")
  /\ UNCHANGED <<variant, svars, kvars, initState, tasks, rq, rvars, faults, sent, win>>

\* What a call suspended at an await of a settled promise becomes.
Continued(tk) ==
  CASE tk.pc = "awaitReady" /\ initState # "pending" ->
         [tk EXCEPT !.pc = IF initState = "ok" THEN "done" ELSE "rejected"]
    [] tk.pc = "thenIdle" /\ initState = "ok" -> [tk EXCEPT !.pc = "done"]
    [] tk.pc = "awaitEnv" /\ envState # "pending" ->
         [tk EXCEPT !.pc = IF envState = "ok" THEN "captureR" ELSE "rejected"]
    [] OTHER -> tk

\* A microtask: the call at the head of the queue goes on after its await of
\* `this.ready` or `this.#envSetup` (or its callback on `ready` runs): the idle
\* status of a kernel_info_request, with the header #parentHeader holds by now, or
\* the call of captureR of an execute_request; on a rejected promise the call
\* rejects.
AwaitSettled ==
  /\ MicrotaskPending
  /\ LET t == Head(mq)
         pc == tasks[t].pc
     IN /\ tasks' = [tasks EXCEPT ![t] = Continued(tasks[t])]
        /\ sent' = IF pc \in {"awaitReady", "thenIdle"} /\ initState = "ok"
                   THEN sent \o IdleMsgs(<<t>>) ELSE sent
        /\ rq' = IF pc = "awaitEnv" /\ envState = "ok"
                 THEN rq \o CaptureReqs(<<t>>) ELSE rq
  /\ mq' = Tail(mq)
  /\ UNCHANGED <<variant, svars, kvars, initState, envState, rvars, faults, win>>

-----------------------------------------------------------------------------
(* handleMessage *)

\* The host has no call of handleMessage pending.
HostIdle == \A t \in 1..Len(tasks) : Settled(t)

\* What is kept of the messages sent so far once nothing is pending: the plot and
\* the reply of the latest request.
Keep(log) ==
  LET K(m) == m.type \in {"display_data", "execute_reply"} /\ m.by = Len(tasks)
  IN SelectSeq(log, K)

Quiet == HostIdle /\ rq = <<>>

\* The record of sent messages when a message arrives.
Window == IF Quiet THEN Keep(sent) ELSE sent

\* A call that has settled holds no state; of the calls before the latest only the
\* place in the numbering is kept once nothing is pending.
Past == [Task("", NoHeader, FALSE, "", "done") EXCEPT !.count0 = 0]

Calls ==
  IF Quiet THEN [i \in 1..Len(tasks) |-> IF i < Len(tasks) THEN Past ELSE tasks[i]]
  ELSE tasks

\* The counter is not advanced.
StoreHistoryDropped(sh) == executionCounter

\* `if (req.content.store_history)`: the counter after the test.
StoreHistory(sh) == IF sh THEN executionCounter + 1 ELSE executionCounter

\* handleMessage, execute_request: #parentHeader, then handleExecRequest up to
\* `await this.#envSetup`, where the call returns to its caller whether or not the
\* promise has settled.
HandleExecRequest(session, sh, code) ==
  LET id == Len(tasks) + 1
      hdr == Header(id, session)
      pc == "awaitEnv"
  IN /\ Len(tasks) < MaxMsg
     /\ parentHeader' = hdr
     /\ sent' = Append(Window, StatusMsg(id, hdr, "busy"))
     /\ executionCounter' = StoreHistory(sh)
     /\ tasks' = Append(Calls, Task("execute_request", hdr, sh, code, pc))
     /\ mq' = IF envState = "pending" THEN mq ELSE Append(mq, id)
     /\ win' = IF Quiet THEN id ELSE win
     /\ UNCHANGED <<variant, svars, lastPlot, lastLive, pvars, rq, rvars, faults>>

\* handleMessage, kernel_info_request: #parentHeader and the reply, up to
\* `await this.ready`, where the call returns to its caller.
HandleKernelInfo(session) ==
  LET id == Len(tasks) + 1
      hdr == Header(id, session)
      pc == "awaitReady"
  IN /\ Len(tasks) < MaxMsg
     /\ parentHeader' = hdr
     /\ sent' = Append(Window, InfoReply(id, hdr))
     /\ tasks' = Append(Calls, Task("kernel_info_request", hdr, FALSE, "", pc))
     /\ mq' = IF initState = "pending" THEN mq ELSE Append(mq, id)
     /\ win' = IF Quiet THEN id ELSE win
     /\ UNCHANGED <<variant, svars, executionCounter, lastPlot, lastLive, pvars, rq, rvars, faults>>

\* The message types of the surface the kernel does not implement.
OtherTypes ==
  {"complete_request", "inspect_request", "is_complete_request",
   "comm_open", "comm_msg", "comm_close"}

\* handleMessage, default branch: console.warn and nothing else.
HandleOther(session, type) ==
  LET id == Len(tasks) + 1
      hdr == Header(id, session)
  IN /\ Len(tasks) < MaxMsg
     /\ tasks' = Append(Calls, Task(type, hdr, FALSE, "", "done"))
     /\ sent' = Window
     /\ win' = IF Quiet THEN id ELSE win
     /\ UNCHANGED <<variant, mq, svars, kvars, pvars, rq, rvars, faults>>

\* The host delivers a request once the call for the previous one has settled.
DeliverExecute ==
  \E sh \in BOOLEAN, code \in Codes : HostIdle /\ HandleExecRequest("s1", sh, code)

DeliverKernelInfo ==
  \E session \in Sessions : HostIdle /\ HandleKernelInfo(session)

DeliverOther ==
  \E type \in OtherTypes : HostIdle /\ HandleOther("s1", type)

\* Cells that print nothing and leave the graphics device alone.
PlainCodes == {"quiet", "stop"}

DeliverPlain ==
  \E sh \in BOOLEAN, code \in PlainCodes : HostIdle /\ HandleExecRequest("s1", sh, code)

\* The host calls handleMessage whether or not an earlier call is pending.
OverlapExecute ==
  \E sh \in BOOLEAN, code \in Codes :
    Len(tasks) < MaxOverlap /\ HandleExecRequest("s1", sh, code)

OverlapKernelInfo ==
  \E session \in Sessions : Len(tasks) < MaxOverlap /\ HandleKernelInfo(session)

-----------------------------------------------------------------------------
(* stdin and disposal *)

\* The Console's prompt callback: R, evaluating a cell, asks for a line of input.
Prompt ==
  /\ rq # <<>> /\ Head(rq).op = "captureR"
  /\ ~MicrotaskPending
  /\ prompts < MaxPrompts
  /\ prompts' = prompts + 1
  /\ sent' = Append(sent, InputRequest(parentHeader))
  /\ UNCHANGED <<variant, mq, kvars, pvars, tasks, rq, rvars, faults, win, isDisposed, stdin,
                 disposeCalls, disposed>>

\* handleMessage, input_reply: the value goes to Console.stdin if the status is
\* ok; the runtime takes a line it was waiting for.
HandleInputReply(status) ==
  /\ stdin < MaxInput
  /\ stdin' = IF status = "ok" THEN stdin + 1 ELSE stdin
  /\ prompts' = IF status = "ok" /\ prompts > 0 THEN prompts - 1 ELSE prompts
  /\ UNCHANGED <<variant, mq, kvars, pvars, tasks, rq, rvars, faults, sent, win, isDisposed,
                 disposeCalls, disposed>>

DeliverInputReply == \E status \in {"ok", "error"} : HandleInputReply(status)

\* The signal is emitted by every call.
DisposedEmitAgain == disposed + 1

\* dispose(): `if (this.isDisposed) return;` then `this.#disposed.emit(void 0)`:
\* the emissions of the signal after the call.
DisposedEmit == IF isDisposed THEN disposed ELSE disposed + 1

\* A call of dispose().
Dispose ==
  /\ disposeCalls < MaxDispose
  /\ disposeCalls' = disposeCalls + 1
  /\ isDisposed' = TRUE
  /\ disposed' = DisposedEmit
  /\ UNCHANGED <<variant, mq, kvars, pvars, tasks, rq, rvars, faults, sent, win, stdin, prompts>>

-----------------------------------------------------------------------------
(* handleExecRequest: the try statement *)

\* The head of the worker's queue is answered: a new job, which starts when the
\* microtasks of the one before have run.
Answer(op) == rq # <<>> /\ Head(rq).op = op /\ ~MicrotaskPending

\* The call awaiting the head request goes on: it becomes `tk`, sends `log` and
\* posts `reqs`.
Goto(t, tk, log, reqs) ==
  /\ tasks' = [tasks EXCEPT ![t] = tk]
  /\ sent' = sent \o log
  /\ rq' = Tail(rq) \o reqs

\* What follows the try statement: sendKernelStatus('idle') in the hash variant,
\* `finally { await this.#shelter.purge() }` first in the shelter variant.
AfterTryPc == IF variant = "hash" THEN "done" ELSE "purge"

\* The call ends without a status message.
AfterTryLogNone(t) == <<>>

AfterTryLog(t) == IF variant = "hash" THEN <<StatusMsg(t, parentHeader, "idle")>> ELSE <<>>

AfterTryReqs(t) == IF variant = "hash" THEN <<>> ELSE <<Req("purge", t, 0)>>

\* The catch clause with its two sends exchanged.
CatchLogReplyFirst(t, evalue) ==
  <<ErrorReply(t, tasks[t].hdr, executionCounter, evalue),
    StreamMsg(t, tasks[t].hdr, "stderr", "Error: " \o evalue \o "\n")>>

\* The catch clause.
CatchLog(t, evalue) ==
  <<StreamMsg(t, tasks[t].hdr, "stderr", "Error: " \o evalue \o "\n"),
    ErrorReply(t, tasks[t].hdr, executionCounter, evalue)>>

\* The call leaves the try statement.
AfterTry(t, tk) ==
  [tk EXCEPT !.pc = AfterTryPc, !.purges = @ + Len(AfterTryReqs(t))]

\* The catch clause runs and the call goes on after the finally clause.
ThrowPastFinally(t, tk, evalue) ==
  Goto(t, [tk EXCEPT !.pc = "done", !.failed = TRUE],
       CatchLog(t, evalue) \o <<StatusMsg(t, parentHeader, "idle")>>, <<>>)

\* The catch clause runs and sendPlotOutput is called after it.
ThrowThenPlot(t, tk, evalue) ==
  Goto(t, [tk EXCEPT !.pc = "devCur", !.failed = TRUE], CatchLog(t, evalue),
       <<Req("devCur", t, 0)>>)

\* An awaited call rejects inside the try statement: the catch clause runs.
Throw(t, tk, evalue) ==
  Goto(t, AfterTry(t, [tk EXCEPT !.failed = TRUE]),
       CatchLog(t, evalue) \o AfterTryLog(t), AfterTryReqs(t))

\* sendPlotOutput returns: the success reply.
Return(t, tk) ==
  Goto(t, AfterTry(t, tk),
       <<OkReply(t, tk.hdr, executionCounter)>> \o AfterTryLog(t), AfterTryReqs(t))

\* e.message of a rejected runtime call.
FaultText == "runtime failure"

Indices(output) == [i \in 1..Len(output) |-> i]

\* The switch sends every item that is not a condition.
StreamsNowDefault(t, output) ==
  LET S(i) == output[i].type \notin {"message", "warning"}
      idx == SelectSeq(Indices(output), S)
  IN [k \in 1..Len(idx) |->
        StreamMsg(t, tasks[t].hdr, output[idx[k]].type, output[idx[k]].data \o "\n")]

\* output.forEach: the callbacks of stdout and stderr items send at once, in order.
StreamsNow(t, output) ==
  LET S(i) == output[i].type \in {"stdout", "stderr"}
      idx == SelectSeq(Indices(output), S)
  IN [k \in 1..Len(idx) |->
        StreamMsg(t, tasks[t].hdr, output[idx[k]].type, output[idx[k]].data \o "\n")]

\* output.forEach: the callbacks of message and warning items stop at
\* `await cnd.get('message')`.
ConditionReqs(t, output) ==
  LET C(i) == output[i].type \in {"message", "warning"}
      idx == SelectSeq(Indices(output), C)
  IN [k \in 1..Len(idx) |-> Req("cndGet", t, idx[k])]

\* output.forEach and then the success reply at once: sendPlotOutput is not called.
ForEachThenReply(t, output) ==
  Goto(t, AfterTry(t, tasks[t]),
       StreamsNow(t, output) \o <<OkReply(t, tasks[t].hdr, executionCounter)>>
         \o AfterTryLog(t),
       ConditionReqs(t, output) \o AfterTryReqs(t))

\* output.forEach, whose callbacks are not awaited, then `await
\* this.sendPlotOutput(msg)` up to its first call, evalR('dev.cur()').
ForEachThenPlot(t, output) ==
  Goto(t, [tasks[t] EXCEPT !.pc = "devCur"], StreamsNow(t, output),
       ConditionReqs(t, output) \o <<Req("devCur", t, 0)>>)

\* captureR is answered: R has evaluated the cell.  On an R error the catch clause
\* runs; otherwise output.forEach and sendPlotOutput up to evalR('dev.cur()').
CaptureR ==
  /\ Answer("captureR")
  /\ LET t == Head(rq).t
         code == tasks[t].code
         output == CodeOutput(code)
         after == CodeDevice(code, rDev, rPlot)
     IN /\ rDev' = after[1]
        /\ rPlot' = after[2]
        /\ rFigNew' = (rFigNew \/ CodeNewPage(code))
        /\ IF CodeRaises(code, rDev)
           THEN Throw(t, [tasks[t] EXCEPT !.error = CodeError(code)], CodeError(code))
           ELSE ForEachThenPlot(t, output)
  /\ UNCHANGED <<variant, mq, svars, kvars, pvars, rFile, faults, win>>

\* cnd.get('message') is answered; the callback goes on to message.toString().
CndGet ==
  /\ Answer("cndGet")
  /\ \E ok \in BOOLEAN :
       /\ MayFail(ok)
       /\ faults' = Fault(ok)
       /\ rq' = IF ok THEN Append(Tail(rq), [Head(rq) EXCEPT !.op = "cndToString"])
                ELSE Tail(rq)
       /\ tasks' = IF ok THEN tasks ELSE [tasks EXCEPT ![Head(rq).t].failed = TRUE]
  /\ UNCHANGED <<variant, mq, svars, kvars, pvars, rvars, sent, win>>

\* The text a condition item is streamed with.
\* Every condition is sent with the prefix of a warning.
ConditionTextPrefixed(item) == "Warning message:\n" \o item.data \o "\n"

ConditionText(item) ==
  IF item.type = "warning" THEN "Warning message:\n" \o item.data \o "\n"
  ELSE item.data \o "\n"

\* message.toString() is answered; the callback sends its stream message.
CndToString ==
  /\ Answer("cndToString")
  /\ \E ok \in BOOLEAN :
       /\ MayFail(ok)
       /\ faults' = Fault(ok)
       /\ LET t == Head(rq).t
              item == CodeOutput(tasks[t].code)[Head(rq).item]
          IN sent' = IF ok THEN Append(sent, StreamMsg(t, tasks[t].hdr, "stderr",
                                                       ConditionText(item)))
                     ELSE sent
       /\ tasks' = IF ok THEN tasks ELSE [tasks EXCEPT ![Head(rq).t].failed = TRUE]
  /\ rq' = Tail(rq)
  /\ UNCHANGED <<variant, mq, svars, kvars, pvars, rvars, win>>

-----------------------------------------------------------------------------
(* sendPlotOutput *)

\* A step of sendPlotOutput that only awaits: on success the call goes on to `next`.
PlotStep(op, tk, next) ==
  /\ Answer(op)
  /\ \E ok \in BOOLEAN :
       /\ MayFail(ok)
       /\ faults' = Fault(ok)
       /\ LET t == Head(rq).t IN
          IF ~ok THEN Throw(t, tk, FaultText)
          ELSE IF next = "return" THEN Return(t, tk)
          ELSE Goto(t, [tk EXCEPT !.pc = next], <<>>, <<Req(next, t, 0)>>)

\* dev.cur(): 1 is the null device.
DevCurNumber == IF rDev = 1 THEN 2 ELSE 1

\* evalR('dev.cur()') / evalRNumber('dev.cur()') is answered.
DevCur ==
  /\ Answer("devCur")
  /\ PlotStep("devCur", [tasks[Head(rq).t] EXCEPT !.dev = DevCurNumber], "newFlag")
  /\ UNCHANGED <<variant, mq, svars, kvars, pvars, rvars, win>>

\* Whether sendPlotOutput goes on to render: `devNumber && devNumber > 1`, `dev > 1`.
\* The null device counts as a device.
DeviceActiveAny(dev) == dev >= 1

DeviceActive(dev) == dev > 1

\* evalR('options("webr.fig.new")[[1]]') / evalRBoolean('getOption("webr.plot.new")')
\* is answered.  The hash variant goes on to dev.toNumber(); the shelter variant has
\* both values and tests the device.
NewFlag ==
  /\ Answer("newFlag")
  /\ LET t == Head(rq).t
         tk == [tasks[t] EXCEPT !.newPlot = rFigNew]
     IN PlotStep("newFlag", tk,
                 CASE variant = "hash" -> "toNumber"
                   [] DeviceActive(tk.dev) -> "capturePlot"
                   [] OTHER -> "return")
  /\ UNCHANGED <<variant, mq, svars, kvars, pvars, rvars, win>>

\* hash: dev.toNumber() is answered.
ToNumber ==
  /\ Answer("toNumber")
  /\ PlotStep("toNumber", tasks[Head(rq).t], "toBoolean")
  /\ UNCHANGED <<variant, mq, svars, kvars, pvars, rvars, win>>

\* hash: newPlot.toBoolean() is answered; the device test.
ToBoolean ==
  /\ Answer("toBoolean")
  /\ LET tk == tasks[Head(rq).t]
     IN PlotStep("toBoolean", tk, IF DeviceActive(tk.dev) THEN "devCopy" ELSE "return")
  /\ UNCHANGED <<variant, mq, svars, kvars, pvars, rvars, win>>

\* hash: the evalR of try({dev.copy(svglite...); dev.off()}, silent=TRUE) is answered.
\* With no device to copy the try swallows the error and the file stays as it was.
DevCopy ==
  /\ Answer("devCopy")
  /\ PlotStep("devCopy", tasks[Head(rq).t], "readFile")
  /\ rFile' = IF rDev = 1 THEN Svg(rPlot) ELSE rFile
  /\ UNCHANGED <<variant, mq, svars, kvars, pvars, rDev, rPlot, rFigNew, win>>

\* The plot is sent whenever the device is active.
PlotChangedAlways(newPlot, plotHash) == TRUE

\* The test without the new-plot flag.
PlotChangedHashOnly(newPlot, plotHash) ==
  lastPlot = 0 \/ plotHash # lastPlot

\* hash: the test that decides whether the plot is sent.
PlotChangedHash(newPlot, plotHash) ==
  newPlot \/ lastPlot = 0 \/ plotHash # lastPlot

\* The success reply is sent ahead of the plot.
SendPlotAfterReply(t, hdr, data) ==
  <<OkReply(t, hdr, executionCounter), DisplayMsg(t, hdr, data)>>

\* The plot is sent twice.
SendPlotTwice(t, hdr, data) == <<DisplayMsg(t, hdr, data), DisplayMsg(t, hdr, data)>>

\* sendIOReply(msg, 'display_data', ...): what sendPlotOutput sends for a plot.
SendPlot(t, hdr, data) == <<DisplayMsg(t, hdr, data)>>

\* hash: FS.readFile is answered; hash, compare and, if the plot is new or changed,
\* store the hash, send display_data and await the reset of webr.fig.new.
ReadFile ==
  /\ Answer("readFile")
  /\ \E ok \in BOOLEAN :
       /\ MayFail(ok)
       /\ faults' = Fault(ok)
       /\ LET t == Head(rq).t
              plotData == rFile
              plotHash == Sha256(plotData)
          IN IF ~ok \/ rFile = 0
             THEN Throw(t, tasks[t], FaultText) /\ UNCHANGED lastPlot
             ELSE IF PlotChangedHash(tasks[t].newPlot, plotHash)
             THEN /\ lastPlot' = plotHash
                  /\ Goto(t, [tasks[t] EXCEPT !.pc = "clearFlag"],
                          SendPlot(t, tasks[t].hdr, plotData),
                          <<Req("clearFlag", t, 0)>>)
             ELSE Return(t, tasks[t]) /\ UNCHANGED lastPlot
  /\ UNCHANGED <<variant, mq, svars, parentHeader, executionCounter, lastLive, pvars, rvars, win>>

\* The flag is left as it is.
FigNewKept(ok) == rFigNew

\* options(webr.fig.new = FALSE): the flag after the call.
FigNewReset(ok) == IF ok THEN FALSE ELSE rFigNew

\* evalR('options(webr.fig.new = FALSE)') is answered; sendPlotOutput returns.
ClearFlag ==
  /\ Answer("clearFlag")
  /\ \E ok \in BOOLEAN :
       /\ MayFail(ok)
       /\ faults' = Fault(ok)
       /\ rFigNew' = FigNewReset(ok)
       /\ LET t == Head(rq).t IN
          IF ok THEN Return(t, tasks[t]) ELSE Throw(t, tasks[t], FaultText)
  /\ UNCHANGED <<variant, mq, svars, kvars, pvars, rDev, rPlot, rFile, win>>

\* shelter: the captureR of the canvas copy and recordPlot() is answered: the image
\* goes to the canvas and the call goes on to evalRBoolean('!identical(a, b)'),
\* whose argument a is #lastRecord as it is now, when the call is made (the request
\* carries it as `item`, and as `live` whether that record is still protected).
\* With no device to copy there is no image, and reading its width throws.
CapturePlot ==
  /\ Answer("capturePlot")
  /\ \E ok \in BOOLEAN :
       /\ MayFail(ok)
       /\ faults' = Fault(ok)
       /\ LET t == Head(rq).t IN
          IF ~ok \/ rDev = 0
          THEN Throw(t, tasks[t], FaultText)
          ELSE Goto(t, [tasks[t] EXCEPT !.pc = "identical", !.data = rPlot, !.live = TRUE],
                    <<>>, <<[Req("identical", t, lastPlot) EXCEPT !.live = lastLive]>>)
  /\ UNCHANGED <<variant, mq, svars, kvars, pvars, rvars, win>>

\* shelter: what !identical(a, b) can answer for the request `req`, which carries
\* a, the #lastRecord bound when evalRBoolean was called, and the call's record b
\* just captured.  shelter.purge() releases every object of the shelter, so a
\* record purged since is a released R object: reading it is a use after release,
\* which the kernel does not guard against and whose answer nothing determines.
IdenticalAnswers(req, tk) ==
  IF req.item = 0 THEN {TRUE}
  ELSE IF req.live /\ tk.live THEN {Record(tk.data) # req.item}
  ELSE BOOLEAN

\* shelter: the test that decides whether the plot is sent.
PlotChangedShelter(newPlot, plotChanged) == newPlot \/ plotChanged

\* shelter: evalRBoolean('!identical(a, b)') is answered; if the plot is new or
\* changed, store the record, send display_data and await the reset of webr.plot.new.
Identical ==
  /\ Answer("identical")
  /\ \E ok \in BOOLEAN :
       /\ MayFail(ok)
       /\ faults' = Fault(ok)
       /\ LET t == Head(rq).t
              tk == tasks[t]
          IN IF ~ok
             THEN Throw(t, tk, FaultText) /\ UNCHANGED <<lastPlot, lastLive>>
             ELSE \E plotChanged \in IdenticalAnswers(Head(rq), tk) :
                    IF PlotChangedShelter(tk.newPlot, plotChanged)
                    THEN /\ lastPlot' = Record(tk.data)
                         /\ lastLive' = tk.live
                         /\ Goto(t, [tk EXCEPT !.pc = "clearFlag"],
                                 SendPlot(t, tk.hdr, Png(tk.data)),
                                 <<Req("clearFlag", t, 0)>>)
                    ELSE Return(t, tk) /\ UNCHANGED <<lastPlot, lastLive>>
  /\ UNCHANGED <<variant, mq, svars, parentHeader, executionCounter, pvars, rvars, win>>

\* Every R object the shelter protects is released.
Released(q) == [k \in 1..Len(q) |-> [q[k] EXCEPT !.live = FALSE]]

\* shelter: `finally { await this.#shelter.purge() }` is answered, then
\* sendKernelStatus('idle').  If purge rejects, so does handleExecRequest.
Purge ==
  /\ Answer("purge")
  /\ \E ok \in BOOLEAN :
       /\ MayFail(ok)
       /\ faults' = Fault(ok)
       /\ LET t == Head(rq).t IN
          IF ok
          THEN /\ tasks' = [i \in 1..Len(tasks) |->
                              IF i = t THEN [tasks[i] EXCEPT !.pc = "done", !.live = FALSE]
                              ELSE [tasks[i] EXCEPT !.live = FALSE]]
               /\ rq' = Released(Tail(rq))
               /\ lastLive' = (lastPlot = 0)
               /\ sent' = Append(sent, StatusMsg(t, parentHeader, "idle"))
          ELSE /\ tasks' = [tasks EXCEPT ![t].pc = "rejected"]
               /\ rq' = Tail(rq)
               /\ UNCHANGED <<lastLive, sent>>
  /\ UNCHANGED <<variant, mq, svars, parentHeader, executionCounter, lastPlot, pvars, rvars, win>>

-----------------------------------------------------------------------------
(* The first revision of the class: src/unnamed/part_001 *)

\* The constructor of part_001 leaves one promise, #init: webR.init(), then
\* installPackages and library(svglite).  There is no #envSetup: envState follows
\* initState.
InitFirst == variant = "first" /\ Start

\* No call of handleMessage is pending; a callback left on `ready` may be.
FirstIdle ==
  /\ \A t \in 1..Len(tasks) : tasks[t].pc \in {"done", "rejected", "thenIdle"}
  /\ ~MicrotaskPending

\* #init settles: the callbacks that kernel_info_request left on `ready` are queued;
\* on a rejection they never run.
FirstReady ==
  /\ initState = "pending"
  /\ ~MicrotaskPending
  /\ \E ok \in BOOLEAN :
       /\ initState' = IF ok THEN "ok" ELSE "failed"
       /\ envState' = initState'
       /\ tasks' = IF ok THEN tasks ELSE Resume("thenIdle", "done")
       /\ mq' = IF ok THEN mq \o Waiting("thenIdle") ELSE mq
  /\ UNCHANGED <<variant, svars, kvars, rq, rvars, faults, sent, win>>

\* handleMessage, execute_request: #parentHeader, busy, the counter and the call of
\* evalRCode, which nothing awaited precedes.
FirstExecRequest(session, sh, code) ==
  LET id == Len(tasks) + 1
      hdr == Header(id, session)
  IN /\ Len(tasks) < MaxMsg
     /\ parentHeader' = hdr
     /\ sent' = Append(sent, StatusMsg(id, hdr, "busy"))
     /\ executionCounter' = StoreHistory(sh)
     /\ tasks' = Append(tasks, Task("execute_request", hdr, sh, code, "evalRCode"))
     /\ rq' = Append(rq, Req("evalRCode", id, 0))
     /\ UNCHANGED <<variant, mq, svars, lastPlot, lastLive, pvars, rvars, faults, win>>

\* handleMessage, kernel_info_request: #parentHeader, the reply, and a callback
\* left on `ready` that sends the idle status; on a rejected #init it never runs.
FirstKernelInfo(session) ==
  LET id == Len(tasks) + 1
      hdr == Header(id, session)
      pc == IF initState = "failed" THEN "done" ELSE "thenIdle"
  IN /\ Len(tasks) < MaxMsg
     /\ parentHeader' = hdr
     /\ sent' = Append(sent, InfoReply(id, hdr))
     /\ tasks' = Append(tasks, Task("kernel_info_request", hdr, FALSE, "", pc))
     /\ mq' = IF initState = "ok" THEN Append(mq, id) ELSE mq
     /\ UNCHANGED <<variant, svars, executionCounter, lastPlot, lastLive, pvars, rq, rvars,
                    faults, win>>

\* handleMessage, any other type: #parentHeader, then the default branch.
FirstOther(session, type) ==
  LET id == Len(tasks) + 1
      hdr == Header(id, session)
  IN /\ Len(tasks) < MaxMsg
     /\ parentHeader' = hdr
     /\ tasks' = Append(tasks, Task(type, hdr, FALSE, "", "done"))
     /\ UNCHANGED <<variant, mq, svars, executionCounter, lastPlot, lastLive, pvars, rq, rvars,
                    faults, sent, win>>

\* The switch of part_001 on out.type: sendStreamReply for the four plain cases.
FirstItemTypes == {"stdout", "stderr", "message", "warning"}

FirstItemStream(t, item) ==
  StreamMsg(t, tasks[t].hdr,
            IF item.type = "stdout" THEN "stdout" ELSE "stderr",
            IF item.type = "warning" THEN "Warning message:\n" \o item.data \o "\n"
            ELSE item.data \o "\n")

\* output.forEach of part_001: every item is sent at once, in order.
FirstStreams(t, output) ==
  LET S(i) == output[i].type \in FirstItemTypes
      idx == SelectSeq(Indices(output), S)
  IN [k \in 1..Len(idx) |-> FirstItemStream(t, output[idx[k]])]

\* evalRCode is answered, which takes a worker that init has started.  An R error
\* is the output item 'error': its stream message and the error reply are sent from
\* the loop, and the ok reply only if no item set the status.  If the call rejects
\* so does handleMessage.
FirstEvalRCode ==
  /\ Answer("evalRCode")
  /\ initState # "pending"
  /\ \E ok \in BOOLEAN :
       /\ MayFail(ok)
       /\ faults' = Fault(ok)
       /\ LET t == Head(rq).t
              code == tasks[t].code
              after == CodeDevice(code, rDev, rPlot)
              raised == CodeRaises(code, rDev)
          IN IF ok
             THEN /\ rDev' = after[1]
                  /\ rPlot' = after[2]
                  /\ Goto(t, [tasks[t] EXCEPT !.pc = "done", !.failed = raised,
                                              !.error = IF raised THEN CodeError(code) ELSE ""],
                          FirstStreams(t, CodeOutput(code))
                            \o (IF raised THEN CatchLog(t, CodeError(code))
                                ELSE <<OkReply(t, tasks[t].hdr, executionCounter)>>)
                            \o <<StatusMsg(t, parentHeader, "idle")>>,
                          <<>>)
             ELSE /\ Goto(t, [tasks[t] EXCEPT !.pc = "rejected", !.failed = TRUE], <<>>, <<>>)
                  /\ UNCHANGED <<rDev, rPlot>>
  /\ UNCHANGED <<variant, mq, svars, kvars, pvars, rFigNew, rFile, win>>

FirstDeliverExecute ==
  \E sh \in BOOLEAN, code \in Codes : FirstIdle /\ FirstExecRequest("s1", sh, code)

FirstDeliverKernelInfo ==
  \E session \in Sessions : FirstIdle /\ FirstKernelInfo(session)

\* part_001 has no case for input_reply: it is one of the other types.
FirstDeliverOther ==
  \E type \in OtherTypes \cup {"input_reply"} : FirstIdle /\ FirstOther("s2", type)

-----------------------------------------------------------------------------
(* Specifications *)

\* The promises of the constructor settle, and the continuations that await them.
Construction == WebRInit \/ SetupEnvironment \/ AwaitSettled

Host == DeliverExecute \/ DeliverKernelInfo

TryStatement == CaptureR \/ CndGet \/ CndToString \/ DevCur \/ NewFlag \/ ClearFlag

HashSteps == ToNumber \/ ToBoolean \/ DevCopy \/ ReadFile

ShelterSteps == CapturePlot \/ Identical \/ Purge

\* Either variant, under a host that awaits each call of handleMessage.
Next == Construction \/ Host \/ TryStatement \/ HashSteps \/ ShelterSteps

Spec == Init /\ [][Next]_vars

\* What the event loop and the webR worker do without the host: every posted call
\* is answered and every continuation runs.
Worker == Construction \/ TryStatement \/ HashSteps \/ ShelterSteps

\* Spec with the worker and the event loop making progress.
SpecLive == Init /\ [][Next]_vars /\ WF_vars(Worker)

\* Spec with dispose() called at any time.
NextDispose == Next \/ Dispose

SpecDispose == Init /\ [][NextDispose]_vars

\* A session of plain cells and of every other kind of inbound message, with
\* dispose() called at any time.
NextSession ==
  \/ Construction
  \/ DeliverPlain \/ DeliverKernelInfo \/ DeliverOther \/ DeliverInputReply
  \/ CaptureR \/ DevCur \/ NewFlag \/ ToNumber \/ ToBoolean \/ Purge
  \/ Dispose

SpecSession == Init /\ [][NextSession]_vars

\* src/unnamed/part_001, under a host that awaits each call of handleMessage.
NextFirst ==
  \/ FirstReady \/ AwaitSettled \/ FirstEvalRCode
  \/ FirstDeliverExecute \/ FirstDeliverKernelInfo \/ FirstDeliverOther

SpecFirst == InitFirst /\ [][NextFirst]_vars

\* src/src/webr_kernel.ts alone.
NextHash == Construction \/ Host \/ TryStatement \/ HashSteps

InitHash == Init /\ variant = "hash"

SpecHash == InitHash /\ [][NextHash]_vars

\* src/unnamed/part_002 (its first class) alone.
NextShelter == Construction \/ Host \/ TryStatement \/ ShelterSteps

InitShelter == Init /\ variant = "shelter"

SpecShelter == InitShelter /\ [][NextShelter]_vars

\* Either variant, under a host that also calls handleMessage while an earlier call
\* is pending.
NextOverlap ==
  \/ Construction \/ OverlapExecute \/ OverlapKernelInfo
  \/ TryStatement \/ HashSteps \/ ShelterSteps

SpecOverlap == Init /\ [][NextOverlap]_vars

\* SpecOverlap with R asking for input and the host delivering input_reply.
NextStdin == NextOverlap \/ Prompt \/ DeliverInputReply

SpecStdin == Init /\ [][NextStdin]_vars

-----------------------------------------------------------------------------
(* What the messages on record say about the calls that sent them *)

\* The calls whose messages are all on record.
Recorded == win..Len(tasks)

Exec(t) == tasks[t].type = "execute_request"

IsStatus(m, t, state) == m.type = "status" /\ m.by = t /\ m.state = state

\* A stream, display_data or execute_reply message of request t.
IsOutput(m, t) ==
  m.type \in {"stream", "display_data", "execute_reply"} /\ m.by = t /\ m.parent = t

\* The places in the record of the messages of call t that satisfy P.
Places(t, P(_)) == {i \in 1..Len(sent) : sent[i].by = t /\ P(sent[i])}

-----------------------------------------------------------------------------
(* C1 *)

\* C1: for every execute-request, its busy status precedes and its idle status
\* follows every stream, display_data and execute_reply message sent for it, and
\* no other status message lies between that busy and that idle.
C1_BusyIdleBracket ==
  \A t \in Recorded : Exec(t) =>
    \A j \in 1..Len(sent) :
      /\ IsOutput(sent[j], t) =>
            /\ \E i \in 1..(j - 1) : IsStatus(sent[i], t, "busy")
            /\ \A i \in 1..(j - 1) : ~IsStatus(sent[i], t, "idle")
      /\ IsStatus(sent[j], t, "idle") =>
            \E i \in 1..(j - 1) :
              /\ IsStatus(sent[i], t, "busy")
              /\ \A k \in (i + 1)..(j - 1) : sent[k].type # "status"

-----------------------------------------------------------------------------
(* C2 *)

\* The stream channel an output item is sent on ("": the item is not sent).
Channel(item) ==
  CASE item.type = "stdout" -> "stdout"
    [] item.type \in {"stderr", "message", "warning"} -> "stderr"
    [] OTHER -> ""

\* The stream message that output item k of request t is sent as.
ItemMsg(t, k) ==
  LET item == CodeOutput(tasks[t].code)[k]
  IN StreamMsg(t, tasks[t].hdr, Channel(item),
               IF item.type \in {"message", "warning"} THEN ConditionText(item)
               ELSE item.data \o "\n")

\* C2: within one execute-request, for any two captured output items i before j
\* that go to the same stream channel, the message for i is sent before the
\* message for j, also when i is a message or warning condition and j is a raw
\* stderr line.
C2_CaptureOrder ==
  \A t \in Recorded : Exec(t) =>
    LET output == CodeOutput(tasks[t].code)
    IN \A i, j \in 1..Len(output) :
         (i < j /\ Channel(output[i]) # "" /\ Channel(output[i]) = Channel(output[j])) =>
           \A p, q \in 1..Len(sent) :
             (sent[p] = ItemMsg(t, i) /\ sent[q] = ItemMsg(t, j)) => p < q

-----------------------------------------------------------------------------
(* C3 *)

\* C3: execute-requests are processed one at a time: when a second execute-request
\* is delivered to handleMessage while a first is in flight, the second's busy
\* status is not sent and its evaluation is not posted to the runtime before the
\* idle status of the first has been sent, so at most one evaluation is in flight.
C3_OneAtATime ==
  /\ \A t1, t2 \in Recorded :
       (t1 < t2 /\ Exec(t1) /\ Exec(t2)) =>
         \A q \in 1..Len(sent) :
           IsStatus(sent[q], t2, "busy") =>
             \E p \in 1..(q - 1) : IsStatus(sent[p], t1, "idle")
  /\ Cardinality({k \in 1..Len(rq) : rq[k].op = "captureR"}) <= 1

-----------------------------------------------------------------------------
(* C4 *)

IsReply(m) == m.type = "execute_reply"

\* No execute-request has arrived after request t.
LatestExec(t) == \A u \in (t + 1)..Len(tasks) : ~Exec(u)

\* C4: for every execute-request with store_history = true, the execution counter
\* after the request's execute_reply (and until the next execute-request arrives)
\* is the counter before the request plus exactly 1, whether the reply is ok or
\* error.
C4_CounterPlusOne ==
  \A t \in Recorded :
    (Exec(t) /\ tasks[t].store_history /\ LatestExec(t) /\ Places(t, IsReply) # {}) =>
      executionCounter = tasks[t].count0 + 1

\* A store_history request that arrived with the counter already advanced has been
\* answered with an error reply.
C4_Witness ==
  \E t \in Recorded :
    /\ Exec(t) /\ tasks[t].store_history /\ LatestExec(t) /\ tasks[t].count0 >= 1
    /\ \E p \in Places(t, IsReply) : sent[p].state = "error"

-----------------------------------------------------------------------------
(* C5 *)

\* C5: for an execute-request whose evaluation raises an R error with message T,
\* exactly one stderr stream message with the text "Error: " T is sent and exactly
\* one execute_reply, which has status error, ename "error", evalue T and an empty
\* traceback; the stream message is sent before the reply.
C5_RuntimeError ==
  \A t \in Recorded :
    (Exec(t) /\ tasks[t].error # "") =>
      LET T == tasks[t].error
          IsErrorStream(m) ==
            m = StreamMsg(t, tasks[t].hdr, "stderr", "Error: " \o T \o "\n")
          streams == Places(t, IsErrorStream)
          replies == Places(t, IsReply)
      IN /\ Cardinality(streams) = 1
         /\ Cardinality(replies) = 1
         /\ \A q \in replies :
              /\ sent[q].state = "error" /\ sent[q].name = "error"
              /\ sent[q].text = T /\ sent[q].traceback = <<>>
              /\ \A p \in streams : p < q

\* An evaluation has raised R's own error for drawing without an open plot, and
\* the request has been answered.
C5_Witness ==
  \E t \in Recorded :
    /\ Exec(t) /\ tasks[t].error = "plot.new has not been called yet"
    /\ Places(t, IsReply) # {}

-----------------------------------------------------------------------------
(* C6 *)

\* The texts an exception caught by handleExecRequest can carry.
ErrorTexts == {FaultText} \cup {CodeError(code) : code \in Codes}

IsErrorText(m) ==
  /\ m.type = "stream" /\ m.name = "stderr"
  /\ \E evalue \in ErrorTexts : m.text = "Error: " \o evalue \o "\n"

IsErrorReply(m) == IsReply(m) /\ m.state = "error"

IsOkReply(m) == IsReply(m) /\ m.state = "ok"

\* C6: if any step between entering the try statement and the success reply fails
\* (the evaluation, reading the text of a message or warning condition, or a
\* runtime call of sendPlotOutput), the request ends with a stderr "Error: ..."
\* stream message followed by an execute_reply with status error, and no
\* execute_reply with status ok is sent for it.
C6_AnyFailureReplied ==
  \A t \in Recorded :
    (Exec(t) /\ tasks[t].failed /\ tasks[t].pc \in {"purge", "done", "rejected"}) =>
      /\ \E p \in Places(t, IsErrorText) : \E q \in Places(t, IsErrorReply) : p < q
      /\ Places(t, IsOkReply) = {}

-----------------------------------------------------------------------------
(* C7 *)

\* C7: the shelter is purged exactly once per execute-request, on the path where
\* sendPlotOutput returns and on the path where the catch clause runs, whatever
\* requests came before: no purge before the request's reply, one from then on.
C7_PurgeOnce ==
  \A t \in Recorded :
    Exec(t) => tasks[t].purges = IF Places(t, IsReply) # {} THEN 1 ELSE 0

\* The last request of a session raised an R error, was answered and has purged
\* the shelter.
C7_Witness ==
  /\ Len(tasks) = MaxMsg /\ Exec(MaxMsg)
  /\ tasks[MaxMsg].error # "" /\ tasks[MaxMsg].pc = "done" /\ tasks[MaxMsg].purges = 1

-----------------------------------------------------------------------------
(* C8 *)

\* Call t, in sendPlotOutput with an active device, learns the fingerprint of the
\* rendering and decides in this step whether to send it.
PlotDecision(t) ==
  /\ tasks[t].pc \in {"readFile", "identical"}
  /\ tasks'[t].pc # tasks[t].pc /\ ~tasks'[t].failed

\* The fingerprint of what call t has rendered.
Rendered(t) == IF variant = "hash" THEN Sha256(rFile) ELSE Record(tasks[t].data)

\* This step sends a display_data message of call t and nothing else.
Emitted(t) ==
  /\ Len(sent') = Len(sent) + 1
  /\ sent'[Len(sent')].type = "display_data" /\ sent'[Len(sent')].by = t

\* C8: when sendPlotOutput runs with an active graphics device, it sends a
\* display_data message if and only if the new-plot flag it read is set or the
\* fingerprint of the rendering differs from the fingerprint last sent in this
\* session, none sent so far counting as different; the fingerprint sent is then
\* the one remembered.
C8_EmitIffChanged ==
  [][\A t \in 1..Len(tasks) :
       PlotDecision(t) =>
         /\ Emitted(t) <=>
              (tasks[t].newPlot \/ lastPlot = 0 \/ Rendered(t) # lastPlot)
         /\ Emitted(t) => lastPlot' = Rendered(t)]_vars

-----------------------------------------------------------------------------
(* C9 *)

\* Cells that neither draw nor touch the graphics device.
SideEffectFree == {"quiet", "say", "warn"}

IsDisplay(m) == m.type = "display_data"

\* Calls a and a + 1 are execute-requests that have both been answered ok.
BothOk(a) ==
  /\ a >= 1 /\ a + 1 = Len(tasks)
  /\ Exec(a) /\ Exec(a + 1)
  /\ Places(a, IsOkReply) # {} /\ Places(a + 1, IsOkReply) # {}

\* C9: the same side-effect-free code run in two consecutive execute-requests that
\* both complete, the device unchanged by either, yields at most one display_data
\* message in the two requests together, whatever state earlier requests left,
\* a request that drew a plot and then failed included.
C9_NoDuplicatePlot ==
  \A a \in 1..Len(tasks) :
    (BothOk(a) /\ tasks[a].code \in SideEffectFree /\ tasks[a + 1].code = tasks[a].code) =>
      Cardinality(Places(a, IsDisplay) \cup Places(a + 1, IsDisplay)) <= 1

\* After an earlier request, the first of two equal side-effect-free requests has
\* sent the plot that was left unsent and the second has sent none.
C9_Witness ==
  \E a \in 2..Len(tasks) :
    /\ BothOk(a) /\ tasks[a].code = "quiet" /\ tasks[a + 1].code = "quiet"
    /\ Cardinality(Places(a, IsDisplay)) = 1 /\ Places(a + 1, IsDisplay) = {}

\* The case of C8 in which nothing is sent, stated with the two requests above.
\* One request has sent a plot; the next, which found the device active, the flag
\* unset and the same rendering, has sent none and has been answered.
C8_Witness ==
  \E a \in 1..Len(tasks) :
    /\ BothOk(a) /\ tasks[a + 1].dev > 1 /\ ~tasks[a + 1].newPlot
    /\ \E p \in Places(a, IsDisplay) : lastPlot = Sha256(sent[p].fp)
    /\ Places(a + 1, IsDisplay) = {} /\ Sha256(rFile) = lastPlot

-----------------------------------------------------------------------------
(* C10 *)

\* C10: an execute-request that completes and whose code opens a new plot on an
\* active device sends a display_data message, and a following execute-request that
\* draws on that plot without a new page sends a display_data message only if the
\* fingerprint of its rendering differs from the one the first sent.
C10_NewThenMutated ==
  \A a \in 1..Len(tasks) :
    /\ (Exec(a) /\ tasks[a].code = "plot" /\ Places(a, IsOkReply) # {}) =>
         Places(a, IsDisplay) # {}
    /\ (BothOk(a) /\ tasks[a].code = "plot" /\ tasks[a + 1].code \in {"draw", "touch"}) =>
         \A p \in Places(a, IsDisplay) : \A q \in Places(a + 1, IsDisplay) :
           Sha256(sent[q].fp) # Sha256(sent[p].fp)

\* A new plot has been sent by one request and the following request drew on it
\* without changing the rendering and sent nothing.
C10_Witness ==
  \E a \in 1..Len(tasks) :
    /\ BothOk(a) /\ tasks[a].code = "plot" /\ tasks[a + 1].code = "touch"
    /\ Places(a, IsDisplay) # {} /\ Places(a + 1, IsDisplay) = {}

-----------------------------------------------------------------------------
(* C11 *)

\* The calls of request t that sendPlotOutput has pending at the worker.
PlotReqs(t) ==
  {k \in 1..Len(rq) :
     /\ rq[k].t = t
     /\ rq[k].op \in {"devCur", "newFlag", "toNumber", "toBoolean", "devCopy",
                      "readFile", "capturePlot", "identical", "clearFlag"}}

\* C11: at most one display_data message is sent per execute-request:
\* sendPlotOutput runs at most once per request (it never has two calls pending,
\* and none once the request has its reply) and sends at most one message.
C11_OnePlotPerRequest ==
  \A t \in Recorded : Exec(t) =>
    /\ Cardinality(Places(t, IsDisplay)) <= 1
    /\ Cardinality(PlotReqs(t)) <= 1
    /\ Places(t, IsReply) # {} => PlotReqs(t) = {}

\* A request has sent its one display_data message and has been answered.
C11_Witness ==
  \E t \in Recorded :
    Exec(t) /\ Cardinality(Places(t, IsDisplay)) = 1 /\ Places(t, IsOkReply) # {}

-----------------------------------------------------------------------------
(* C12 *)

\* The calls of sendPlotOutput that render, compare or reset.
RenderOps == {"devCopy", "readFile", "capturePlot", "identical", "clearFlag"}

\* C12: once sendPlotOutput has read the null device (dev.cur() not greater than
\* 1), no step of that request sends a display_data message, posts a render or
\* copy, or changes the stored fingerprint, the rendered file or the new-plot flag.
C12_NullDevice ==
  [][\A t \in 1..Len(tasks) :
       (tasks[t].dev = 1 /\ rq # <<>> /\ Head(rq).t = t /\ rq' # rq) =>
         /\ \A i \in 1..Len(sent') :
              ~(sent'[i].by = t /\ sent'[i].type = "display_data")
         /\ \A k \in 1..Len(rq') : rq'[k].t = t => rq'[k].op \notin RenderOps
         /\ lastPlot' = lastPlot /\ rFile' = rFile /\ rFigNew' = rFigNew]_vars

\* A request that closed the device after a new page has been answered: the flag
\* is set and a fingerprint is stored, and it found the null device.
C12_Witness ==
  \E t \in Recorded :
    /\ Exec(t) /\ tasks[t].dev = 1 /\ Places(t, IsOkReply) # {}
    /\ rFigNew /\ lastPlot # 0

-----------------------------------------------------------------------------
(* C13 *)

\* This step sends exactly one message, a display_data message.
SendsPlot ==
  Len(sent') = Len(sent) + 1 /\ sent'[Len(sent')].type = "display_data"

\* C13: the stored fingerprint changes only in a step that sends a display_data
\* message, and such a step stores the fingerprint of what it sends; a request
\* that sent a display_data message and completed has cleared the new-plot flag.
\* Steps that send no display_data (unchanged plot, null device, failed
\* evaluation, kernel_info_request) leave the stored fingerprint as it is.
C13_PlotStateOnEmission ==
  /\ [][/\ lastPlot' # lastPlot => SendsPlot
        /\ SendsPlot => lastPlot' = Sha256(sent'[Len(sent')].fp)]_vars
  /\ [](\A t \in Recorded :
          (Exec(t) /\ t = Len(tasks) /\ Places(t, IsDisplay) # {}
             /\ Places(t, IsOkReply) # {} /\ rq = <<>>) => ~rFigNew)

\* A second plot has replaced the stored fingerprint of a first and the request
\* that sent it has completed.
C13_Witness ==
  \E t \in Recorded :
    /\ Exec(t) /\ tasks[t].code = "draw" /\ Places(t, IsOkReply) # {}
    /\ \E p \in Places(t, IsDisplay) : lastPlot = Sha256(sent[p].fp) /\ sent[p].fp = Svg(2)

-----------------------------------------------------------------------------
(* C14 *)

IsIdle(m) == m.type = "status" /\ m.state = "idle"

\* Call t, or a settled call that held nothing if there is no call t yet.
TaskAt(t) == IF t \in 1..Len(tasks) THEN tasks[t] ELSE Past

\* The evaluation of execute-request t raised an R error.
Raised(t) == TaskAt(t).type = "execute_request" /\ TaskAt(t).error # ""

\* C14: after an execute-request whose evaluation raised, the session remains
\* usable: the failed request is completed with an idle status, and the
\* execute-request that follows it is processed to an execute_reply and an idle
\* status.  A request whose shelter.purge() itself rejects is the one exception:
\* its call ends there.
C14_UsableAfterError ==
  \A t \in 1..MaxMsg :
    /\ (Raised(t) /\ t \in Recorded)
          ~> (Places(t, IsIdle) # {} \/ TaskAt(t).pc = "rejected")
    /\ (t = Len(tasks) /\ TaskAt(t).type = "execute_request" /\ Raised(t - 1))
          ~> (\/ Places(t, IsReply) # {} /\ Places(t, IsIdle) # {}
              \/ TaskAt(t).pc = "rejected")

\* The request after one whose evaluation raised has its ok reply and its idle
\* status.
C14_Witness ==
  \E t \in 2..Len(tasks) :
    /\ t = Len(tasks) /\ Exec(t) /\ Raised(t - 1)
    /\ Places(t, IsOkReply) # {} /\ Places(t, IsIdle) # {}

-----------------------------------------------------------------------------
(* C15 *)

IsStream(m) == m.type = "stream"

\* The output items of request t whose type is none of stdout, stderr, message,
\* warning.
UnknownItems(t) ==
  LET output == CodeOutput(tasks[t].code)
  IN {k \in 1..Len(output) : Channel(output[k]) = ""}

\* Request t has left its try statement, no callback of it is pending and no
\* runtime call of it rejected.
Completed(t) ==
  /\ tasks[t].pc \in {"purge", "done"} /\ ~tasks[t].failed
  /\ \A k \in 1..Len(rq) : rq[k].t = t => rq[k].op = "purge"

\* C15: an output item of an unknown type yields no outbound message (none of the
\* request's stream messages carries its data) and does not make the request
\* fail: the request sends the messages of its other items and ends with an
\* execute_reply with status ok.
C15_UnknownItemIgnored ==
  \A t \in Recorded : (Exec(t) /\ UnknownItems(t) # {}) =>
    LET output == CodeOutput(tasks[t].code)
    IN /\ \A k \in UnknownItems(t) : \A p \in Places(t, IsStream) :
            /\ sent[p].name \in {"stdout", "stderr"}
            /\ sent[p].text \notin
                 {output[k].data, output[k].data \o "\n",
                  "Warning message:\n" \o output[k].data \o "\n"}
       /\ Completed(t) =>
            /\ Places(t, IsOkReply) # {} /\ Places(t, IsErrorReply) = {}
            /\ \A k \in 1..Len(output) : Channel(output[k]) # "" =>
                 \E p \in Places(t, IsStream) : sent[p] = ItemMsg(t, k)

\* A request whose output held an item of unknown type has sent the two messages
\* of its other items and has its ok reply.
C15_Witness ==
  \E t \in Recorded :
    /\ Exec(t) /\ UnknownItems(t) # {} /\ Completed(t)
    /\ Cardinality(Places(t, IsStream)) = 2 /\ Places(t, IsOkReply) # {}

-----------------------------------------------------------------------------
(* C16 *)

KnownTypes == {"stdout", "stderr", "message", "warning"}

\* The stream channel and text an output item of a known type is to be sent with.
ExpectedName(item) == IF item.type = "stdout" THEN "stdout" ELSE "stderr"

ExpectedText(item) ==
  IF item.type = "warning" THEN "Warning message:\n" \o item.data \o "\n"
  ELSE item.data \o "\n"

\* C16: on a successful evaluation each captured output item of a known type
\* yields exactly one stream message: stdout T on stdout with text T "\n", stderr
\* T on stderr with T "\n", a message condition M on stderr with M "\n" and no
\* prefix, a warning condition M on stderr with "Warning message:\n" M "\n"; the
\* request sends as many stream messages as it has items of known type.
C16_OneStreamPerItem ==
  \A t \in Recorded : (Exec(t) /\ Completed(t)) =>
    LET output == CodeOutput(tasks[t].code)
        known == {k \in 1..Len(output) : output[k].type \in KnownTypes}
    IN /\ \A k \in known :
            Cardinality({p \in Places(t, IsStream) :
                           /\ sent[p].name = ExpectedName(output[k])
                           /\ sent[p].text = ExpectedText(output[k])
                           /\ sent[p].parent = t}) = 1
       /\ Cardinality(Places(t, IsStream)) = Cardinality(known)

\* A request with a stdout line, a message condition and a stderr line has sent
\* its three stream messages.
C16_Witness ==
  \E t \in Recorded :
    /\ Exec(t) /\ Completed(t) /\ tasks[t].code = "say"
    /\ Cardinality(Places(t, IsStream)) = 3

-----------------------------------------------------------------------------
(* C17 *)

\* C17: every execute-request yields exactly one execute_reply: never more than
\* one, and one once its call of handleMessage has left the try statement or has
\* ended, however it ended; when no step failed the reply has status ok, the
\* current execution counter as execution_count and an empty user_expressions
\* map; no request has both an ok and an error reply.
C17_OneReply ==
  \A t \in Recorded : Exec(t) =>
    /\ Cardinality(Places(t, IsReply)) <= 1
    /\ tasks[t].pc \in {"purge", "done", "rejected"} =>
         Cardinality(Places(t, IsReply)) = 1
    /\ ~(Places(t, IsOkReply) # {} /\ Places(t, IsErrorReply) # {})
    /\ Completed(t) =>
         \A p \in Places(t, IsReply) :
           /\ sent[p].state = "ok" /\ sent[p].user_expressions = <<>>
           /\ sent[p].count = tasks[t].count0 + (IF tasks[t].store_history THEN 1 ELSE 0)
           /\ LatestExec(t) => sent[p].count = executionCounter

\* The second store_history request of a session has its one reply, ok with
\* execution_count 2.
C17_Witness ==
  \E t \in Recorded :
    /\ Exec(t) /\ Completed(t) /\ tasks[t].store_history
    /\ \E p \in Places(t, IsOkReply) : sent[p].count = 2

-----------------------------------------------------------------------------
(* C18 *)

IsInfoReply(m) == m.type = "kernel_info_reply"

\* C18: for a kernel_info_request the kernel_info_reply is not sent before the
\* runtime's readiness has resolved, and the idle status of that request is sent
\* after the reply.
C18_InfoReplyAfterReady ==
  \A t \in Recorded : tasks[t].type = "kernel_info_request" =>
    /\ Places(t, IsInfoReply) # {} => initState # "pending"
    /\ \A q \in Places(t, IsIdle) : \E p \in Places(t, IsInfoReply) : p < q

-----------------------------------------------------------------------------
(* C19 *)

\* C19: an input_reply is forwarded to the runtime's stdin only if an
\* input_request sent by the session is outstanding; one that arrives when no
\* prompt is outstanding is ignored and nothing is forwarded.
C19_InputOnlyWhenPrompted ==
  [][stdin' # stdin => prompts > 0]_vars

-----------------------------------------------------------------------------
(* C20 *)

\* C20: once dispose() has been called the session stays disposed, and every
\* later call of handleMessage is a no-op: it sends no message, posts no call to
\* the runtime and leaves the counter, the parent header and the plot state as
\* they are.
C20_DisposedNoOp ==
  [][isDisposed =>
       /\ isDisposed'
       /\ Len(tasks') > Len(tasks) =>
            /\ \A i \in 1..Len(sent') : sent'[i].by # Len(tasks')
            /\ rq' = rq
            /\ executionCounter' = executionCounter
            /\ parentHeader' = parentHeader
            /\ lastPlot' = lastPlot
       /\ stdin' = stdin]_vars

-----------------------------------------------------------------------------
(* C21 *)

\* C21: dispose() is idempotent: over any sequence of calls the disposed signal
\* is emitted exactly once, by the first call, and a second or later call changes
\* no state of the kernel.
C21_DisposeOnce ==
  /\ [][disposeCalls' # disposeCalls =>
          IF isDisposed
          THEN UNCHANGED <<variant, mq, kvars, pvars, tasks, rq, rvars, faults, sent, win,
                           isDisposed, stdin, prompts, disposed>>
          ELSE isDisposed' /\ disposed' = disposed + 1]_vars
  /\ [](disposed = IF disposeCalls > 0 THEN 1 ELSE 0)

\* dispose() has been called a second time, in a session that has handled a
\* message, and the signal has been emitted once.
C21_Witness ==
  disposeCalls = MaxDispose /\ isDisposed /\ disposed = 1 /\ Len(tasks) >= 1

-----------------------------------------------------------------------------
(* C22 *)

\* This step is handleMessage called with a message of a type outside the cases of
\* the switch.
OtherArrives ==
  /\ Len(tasks') = Len(tasks) + 1
  /\ tasks'[Len(tasks')].type
       \in OtherTypes \cup (IF variant = "first" THEN {"input_reply"} ELSE {})

\* C22: an inbound message of an unrecognized kind is dropped without effect:
\* the call of handleMessage completes without failing, sends no message, posts no
\* call to the runtime and leaves the execution counter, the tracked parent header
\* and the plot state as they were.
C22_UnknownDropped ==
  [][OtherArrives =>
       /\ tasks'[Len(tasks')].pc = "done"
       /\ \A i \in 1..Len(sent') : sent'[i].by # Len(tasks')
       /\ rq' = rq
       /\ executionCounter' = executionCounter
       /\ parentHeader' = parentHeader
       /\ lastPlot' = lastPlot /\ lastLive' = lastLive]_vars

-----------------------------------------------------------------------------
(* C23 *)

\* A reply of call t that reports an error.
IsRefusal(m) == m.parent = m.by /\ m.state = "error"

\* C23: a request on the unimplemented surface (completion, inspection,
\* completeness check, comm open, message and close) gets an explicit "not
\* supported" outcome: its call of handleMessage sends an error reply or fails.
C23_NotSupportedExplicit ==
  \A t \in Recorded : tasks[t].type \in OtherTypes =>
    Places(t, IsRefusal) # {} \/ tasks[t].pc = "rejected"

-----------------------------------------------------------------------------
(* C24 *)

\* The types of the messages sent through sendIOReply, sendShellReply and
\* sendKernelInfoReply.
LinkedTypes == {"stream", "display_data", "execute_reply", "kernel_info_reply"}

\* C24: every stream, display_data, execute_reply and kernel_info_reply message
\* carries as parent_header the header of the request that triggered it, and
\* every status message carries the header of the request seen last (under a
\* host that awaits each call, the request being handled); a status message is
\* unlinked only if no request has been seen yet.
C24_ParentLinked ==
  \A i \in 1..Len(sent) :
    LET m == sent[i]
    IN /\ m.type \in LinkedTypes =>
            /\ m.by >= 1 /\ m.parent = m.by
            /\ m.by \in Recorded => m.session = tasks[m.by].hdr.session
       /\ m.type = "status" => m.parent = m.by

-----------------------------------------------------------------------------
(* C25 *)

\* This step is handleMessage called with an execute_request that asks for its
\* code to be stored in the history.
StoredArrives ==
  /\ Len(tasks') = Len(tasks) + 1
  /\ tasks'[Len(tasks')].type = "execute_request" /\ tasks'[Len(tasks')].store_history

\* C25: the execution counter never decreases and is never reset; it changes only
\* in the handling of an execute_request with store_history = true, and then by
\* exactly 1; execute_requests with store_history = false, kernel_info_requests,
\* input_replies, unrecognized messages, dispose() and every later step of a
\* request leave it as it is.
C25_CounterMonotone ==
  [][/\ executionCounter' >= executionCounter
     /\ StoredArrives => executionCounter' = executionCounter + 1
     /\ ~StoredArrives => executionCounter' = executionCounter]_vars

\* The counter stands at 2 in a disposed session that has taken a line of input
\* and whose last message was of an unrecognized type.
C25_Witness ==
  /\ executionCounter = 2 /\ isDisposed /\ stdin > 0
  /\ Len(tasks) = MaxMsg /\ tasks[MaxMsg].type \in OtherTypes

-----------------------------------------------------------------------------
(* C26 *)

IsBusy(m) == m.type = "status" /\ m.state = "busy"

\* C26: every processed inbound message makes the status go from idle to busy
\* and back exactly once: the handling of an execute_request or of a
\* kernel_info_request sends exactly one busy status and, after it, exactly one
\* idle status.
C26_BusyThenIdle ==
  \A t \in Recorded : tasks[t].type \in {"execute_request", "kernel_info_request"} =>
    /\ Cardinality(Places(t, IsBusy)) <= 1
    /\ Cardinality(Places(t, IsIdle)) <= 1
    /\ \A q \in Places(t, IsIdle) : \E p \in Places(t, IsBusy) : p < q
    /\ tasks[t].pc = "done" => Places(t, IsBusy) # {} /\ Places(t, IsIdle) # {}

-----------------------------------------------------------------------------
(* C27 *)

\* This step is handleMessage called with an execute_request.
ExecArrives ==
  Len(tasks') = Len(tasks) + 1 /\ tasks'[Len(tasks')].type = "execute_request"

\* C27: once the initialization of the runtime or the one-time environment setup
\* has failed, no request proceeds: an execute_request then causes no busy or
\* idle status and no evaluation by the runtime, and its call is rejected or
\* left waiting.
C27_NoRequestAfterInitFailure ==
  [][(envState = "failed" /\ ExecArrives) =>
       /\ \A i \in 1..Len(sent') :
            ~(sent'[i].by = Len(tasks') /\ sent'[i].type = "status")
       /\ rq' = rq
       /\ tasks'[Len(tasks')].pc \in {"rejected", "awaitEnv"}]_vars

-----------------------------------------------------------------------------
(* C28 *)

\* The latest call of handleMessage is an execute_request and the call before it
\* ended because its shelter.purge() rejected.
PurgeFailed ==
  /\ Len(tasks) >= 2 /\ Exec(Len(tasks))
  /\ tasks[Len(tasks) - 1].pc = "rejected" /\ tasks[Len(tasks) - 1].purges > 0

\* C28: a failure to release the shelter at the end of an execute_request is
\* fatal to the session: the code of the execute_request that follows is not
\* submitted to the runtime.
C28_PurgeFailureFatal ==
  PurgeFailed => \A k \in 1..Len(rq) : rq[k].op # "captureR"

-----------------------------------------------------------------------------
(* C29 *)

\* C29: for an execute_request with store_history = true the counter is advanced
\* before the code is submitted to the runtime, and the execution_count of the
\* request's execute_reply, ok or error, is the counter right after the request's
\* own increment: the counter counting the store_history requests (C25), the k-th
\* of them reports k.
C29_CountOfOwnIncrement ==
  \A t \in Recorded : (Exec(t) /\ tasks[t].store_history) =>
    /\ (\E k \in 1..Len(rq) : rq[k].t = t /\ rq[k].op = "captureR") =>
         executionCounter = tasks[t].count0 + 1
    /\ \A p \in Places(t, IsReply) : sent[p].count = tasks[t].count0 + 1

\* The second store_history request of a session raised an R error and its error
\* reply reports 2.
C29_Witness ==
  \E t \in Recorded :
    /\ Exec(t) /\ tasks[t].store_history /\ tasks[t].count0 = 1 /\ tasks[t].error # ""
    /\ \E p \in Places(t, IsErrorReply) : sent[p].count = 2

-----------------------------------------------------------------------------
(* C30 *)

\* C30: no code of an execute_request is submitted to the runtime, and no device
\* query of sendPlotOutput is made, before the initialization of the runtime and
\* the one-time environment setup have both completed: while either is pending
\* or failed, no call of a request is at the worker.
C30_NothingBeforeReady ==
  \A k \in 1..Len(rq) :
    rq[k].op \in {"captureR", "evalRCode", "devCur"} =>
      initState = "ok" /\ envState = "ok"

-----------------------------------------------------------------------------
(* C31 *)

\* C31: within a successful execute_request the messages follow the order of the
\* steps: every stream message of the captured output is sent before the
\* display_data message, if there is one, and that before the execute_reply; no
\* stream or display_data message of the request is sent after its reply.
C31_StepOrder ==
  \A t \in Recorded : (Exec(t) /\ Places(t, IsOkReply) # {}) =>
    /\ \A p \in Places(t, IsStream) : \A q \in Places(t, IsDisplay) : p < q
    /\ \A p \in Places(t, IsStream) \cup Places(t, IsDisplay) :
         \A r \in Places(t, IsReply) : p < r

\* A request has sent the stream message of a warning condition, then a plot,
\* then its ok reply.
C31_Witness ==
  \E t \in Recorded :
    /\ Exec(t) /\ Places(t, IsOkReply) # {} /\ Places(t, IsDisplay) # {}
    /\ \E p \in Places(t, IsStream) : sent[p].text = "Warning message:\nw\n"

-----------------------------------------------------------------------------
(* C32 *)

\* C32: every execute_request after the first starts from a clean slate: when its
\* code is at the runtime for evaluation the new-plot flag of the runtime is
\* false, whatever the requests before it did (sent a plot, failed after
\* drawing, closed the device after a new page).  The flag is false when the
\* first request starts, so code waiting at the worker finds the flag false.
C32_CleanSlate ==
  \A k \in 1..Len(rq) : rq[k].op = "captureR" => ~rFigNew

-----------------------------------------------------------------------------
(* C33 *)

\* C33: in the shelter variant the record of the plot sent last is still a live
\* R object whenever a later request compares against it: while a call of
\* '!identical(a, b)' that reads #lastRecord is at the runtime, the shelter that
\* owns the record has not been purged.
C33_RecordLive ==
  \A k \in 1..Len(rq) : (rq[k].op = "identical" /\ lastPlot # 0) => lastLive

-----------------------------------------------------------------------------
(* C34 *)

\* The reads of a condition object that the callbacks of output.forEach have
\* pending at the worker.
CndReads == {k \in 1..Len(rq) : rq[k].op \in {"cndGet", "cndToString"}}

\* C34: in the shelter variant the shelter is not purged while a callback of
\* output.forEach of the same request is pending: every read of a message or
\* warning condition (get 'message', toString) is answered before the shelter
\* that holds the object is released, so no pending read is of a released
\* object and a request that has purged has no read pending.
C34_CallbacksBeforePurge ==
  \A k \in CndReads :
    /\ rq[k].live
    /\ tasks[rq[k].t].pc \notin {"done", "rejected"}

\* A request of the shelter variant with a warning condition has sent the text
\* of the condition and has then purged the shelter.
C34_Witness ==
  \E t \in Recorded :
    /\ variant = "shelter" /\ Exec(t) /\ tasks[t].pc = "done" /\ tasks[t].purges = 1
    /\ \E p \in Places(t, IsStream) : \E q \in Places(t, IsIdle) :
         sent[p].text = "Warning message:\nw\n" /\ p < q

-----------------------------------------------------------------------------
(* C35 *)

\* This step sends an input_request: R, evaluating the code at the head of the
\* worker's queue, asks for a line of input.
Prompts ==
  Len(sent') = Len(sent) + 1 /\ sent'[Len(sent')].type = "input_request"

\* C35: an input_request sent while an execute_request is being evaluated carries
\* the header of that execute_request as parent_header, and its session, also
\* when a kernel_info_request is handled while the evaluation is pending; and
\* the idle status that closes an execute_request carries the session of that
\* execute_request.
C35_PromptParent ==
  [][/\ Prompts =>
          /\ sent'[Len(sent')].parent = Head(rq).t
          /\ sent'[Len(sent')].session = tasks[Head(rq).t].hdr.session
     /\ \A i \in 1..Len(sent') :
          (IsIdle(sent'[i]) /\ sent'[i].by \in win'..Len(tasks')) =>
            (tasks'[sent'[i].by].type = "execute_request" =>
               sent'[i].session = tasks'[sent'[i].by].hdr.session)]_vars

-----------------------------------------------------------------------------
(* C36 *)

\* captureR is answered in this step with an R error.
Raises ==
  /\ Answer("captureR") /\ rq' # rq
  /\ CodeRaises(tasks[Head(rq).t].code, rDev)

\* Call a is an execute_request and the latest call, a + 1, is the next one.
NextExec(a) == a >= 1 /\ a + 1 = Len(tasks) /\ Exec(a) /\ Exec(a + 1)

\* C36: when the evaluation of an execute_request raises, sendPlotOutput is not
\* run for that request: the step sends no display_data message, posts no call of
\* sendPlotOutput, leaves the stored fingerprint as it is and does not clear the
\* new-plot flag, and the request never has a display_data message; so a plot the
\* failed request drew is sent by the next execute_request that is answered ok
\* and found the device active.
C36_RaisedSkipsPlot ==
  /\ [][Raises =>
          /\ ~SendsPlot /\ PlotReqs(Head(rq).t)' = {}
          /\ lastPlot' = lastPlot
          /\ (rFigNew \/ CodeNewPage(tasks[Head(rq).t].code)) => rFigNew']_vars
  /\ [](\A t \in Recorded :
          Raised(t) => Places(t, IsDisplay) = {} /\ PlotReqs(t) = {})
  /\ [](\A a \in 1..Len(tasks) :
          (/\ NextExec(a) /\ Raised(a) /\ tasks[a].code = "plotstop"
           /\ Places(a + 1, IsOkReply) # {} /\ tasks[a + 1].dev > 1) =>
            Places(a + 1, IsDisplay) # {})

\* A request drew a plot and raised; the next request, which draws nothing, has
\* sent that plot and has been answered ok.
C36_Witness ==
  \E a \in 1..Len(tasks) :
    /\ NextExec(a) /\ Raised(a) /\ tasks[a].code = "plotstop"
    /\ Places(a, IsErrorReply) # {} /\ Places(a, IsDisplay) = {}
    /\ tasks[a + 1].code = "quiet" /\ Places(a + 1, IsOkReply) # {}
    /\ \E p \in Places(a + 1, IsDisplay) : sent[p].fp = Svg(1)

====
